---- MODULE Spec2Model ----
(***************************************************************************)
(* A model of formlib: the constructor protocol of FormMixIn               *)
(* (formlib/form.py) and InitializerMixIn (formlib/lib/initializer.py),    *)
(* the class merge of FormMixIn.as_full, and the template tag              *)
(* formlib.tags.render.                                                    *)
(*                                                                         *)
(* A Python dict is a function whose DOMAIN is its key set; a Python str   *)
(* whose characters matter is a sequence of symbols; None is the value     *)
(* None below.                                                             *)
(***************************************************************************)
EXTENDS Integers, Sequences, FiniteSets, TLC

\* ------------------------------------------------------------------------
\* Bounds of the model
\* ------------------------------------------------------------------------

\* the longest *args tuple a caller passes
MaxArgs == 3

\* the longest class attribute a widget starts with, in symbols
MaxLen == 3

\* the most calls of as_full on one form
MaxCalls == 3

\* ------------------------------------------------------------------------
\* Values
\* ------------------------------------------------------------------------

None == "None"

\* what a caller passes as an argument value
Values == {None, "u"}

\* the keyword names a caller uses
KwNames == {"a", "data", "files", "prefix"}

\* the parameter names a subclass declares on init(), 'self' excluded
InitNames == {"a", "data", "prefix"}

\* request.method
Methods == {"GET", "POST"}

\* request.POST: the submitted form data of the request
PostData == {"POST{}", "POST{name=Ada}"}

\* request.FILES: the uploaded files of the request
FilesData == {"FILES{}"}

Requests == [method : Methods, POST : PostData, FILES : FilesData]

NoRequest == [method |-> "-", POST |-> "-", FILES |-> "-"]

\* every dict with keys among names and values among vals
Dicts(names, vals) == UNION {[S -> vals] : S \in SUBSET names}

\* every tuple of at most n values
Tuples(n, vals) == UNION {[1..k -> vals] : k \in 0..n}

EmptyDict == [k \in {} |-> None]

VARIABLES
  mixin,         \* the mixin whose __init__ runs
  DEBUG,         \* settings.DEBUG
  request,       \* the request argument
  args,          \* *args as the caller passed them
  caller_kwargs, \* **kwargs as the caller passed them
  init_args,     \* inspect.getargspec(self.init).args without 'self'
  pc,            \* the statement of __init__ that runs next
  self_request,  \* self.request
  kwargs,        \* the kwargs dict, which __init__ pops from
  init_kwargs,   \* the dict passed to init()
  newargs,       \* the positional arguments built for the base constructor
  super_calls,   \* the calls made to super().__init__, in order
  init_calls,    \* the calls made to self.init, in order
  error          \* the exception __init__ ended with, or None

ctor_vars == <<mixin, DEBUG, request, args, caller_kwargs, init_args, pc,
               self_request, kwargs, init_kwargs, newargs, super_calls,
               init_calls, error>>

VARIABLES
  fields,       \* field name -> field.widget.attrs
  fields0,      \* fields as they were before the first as_full
  calls,        \* how many times the body of as_full has run
  after_first,  \* fields as the first run of as_full left them
  context,      \* the rendering context the view passed to the template
  tag_args,     \* the arguments the template gives the tag after context
  caller_body,  \* what capture(context, context['caller'].body) gives
  before,       \* fields and calls when the last operation began
  last_op,      \* the last operation: "as_full" or "render"
  result        \* what the last operation returned or raised

render_vars == <<fields, fields0, calls, after_first, context, tag_args,
                 caller_body, before, last_op, result>>

vars == <<ctor_vars, render_vars>>

\* ------------------------------------------------------------------------
\* The base constructor, as the mixins see it
\* ------------------------------------------------------------------------

\* the leading parameters of the base form constructor, 'self' excluded
BaseParams == <<"data", "files", "auto_id", "prefix">>

BaseParamNames == {BaseParams[i] : i \in 1..Len(BaseParams)}

\* Python's binding of a call f(*a, **kw) to the parameters params:
\* too many positionals, an unknown keyword, or a keyword that names a
\* parameter a positional already filled, raise TypeError
Binds(params, a, kw) ==
  /\ Len(a) <= Len(params)
  /\ \A k \in DOMAIN kw : \E i \in 1..Len(params) : params[i] = k /\ i > Len(a)

\* ------------------------------------------------------------------------
\* The statements of the constructors
\* ------------------------------------------------------------------------

Pop(d, keys) == [k \in DOMAIN d \ keys |-> d[k]]

\* a variant of line 82 that leaves out the names the caller did not pass
StripInitNoDefault(kw, names) == [k \in names \cap DOMAIN kw |-> kw[k]]

\* { k: kwargs.pop(k, None) for k in getargspec(self.init).args if k != 'self' }
StripInit(kw, names) == [k \in names |-> IF k \in DOMAIN kw THEN kw[k] ELSE None]

\* what the comprehension leaves in kwargs
StripRest(kw, names) == Pop(kw, names)

\* the parameter names of every __init__ in the mro: the subclass and
\* FormMixIn (self, request), the base form, object (self)
mro_args == {"self", "request"} \cup {"self"} \cup BaseParamNames

\* a variant of line 89 that finds no conflict
conflictsNone(ik) == {}

\* mro_args & set(init_kwargs.keys())
conflicts(ik) == mro_args \cap DOMAIN ik

\* variants of line 95: without the keyword, without the request default,
\* and with the request default on every method
ResolveDataIgnoresKw(a, kw, req) ==
  IF Len(a) > 0 THEN a[1]
  ELSE IF req.method = "POST" THEN req.POST
  ELSE None
ResolveDataNoDefault(a, kw, req) ==
  IF Len(a) > 0 THEN a[1]
  ELSE IF "data" \in DOMAIN kw THEN kw["data"]
  ELSE None
ResolveDataAnyMethod(a, kw, req) ==
  IF Len(a) > 0 THEN a[1]
  ELSE IF "data" \in DOMAIN kw THEN kw["data"]
  ELSE req.POST

\* the first element of newargs
ResolveData(a, kw, req) ==
  IF Len(a) > 0 THEN a[1]
  ELSE IF "data" \in DOMAIN kw THEN kw["data"]
  ELSE IF req.method = "POST" THEN req.POST
  ELSE None

\* the second element of newargs
ResolveFiles(a, kw, req) ==
  IF Len(a) > 1 THEN a[2]
  ELSE IF "files" \in DOMAIN kw THEN kw["files"]
  ELSE IF req.method = "POST" THEN req.FILES
  ELSE None

\* a variant of lines 95-96 that pops both keys whatever args holds
ResolvePopsAlways(a, kw) == {"data", "files"}

\* the keys the two conditional expressions pop from kwargs
ResolvePops(a, kw) ==
  (IF Len(a) > 0 THEN {} ELSE {"data"}) \cup (IF Len(a) > 1 THEN {} ELSE {"files"})

\* newargs.extend(args[2:])
ExtraArgs(a) == IF Len(a) > 2 THEN SubSeq(a, 3, Len(a)) ELSE <<>>

CtorInit ==
  /\ mixin \in {"FormMixIn", "InitializerMixIn"}
  /\ DEBUG \in BOOLEAN
  /\ request \in Requests
  /\ mixin = "InitializerMixIn" => (~DEBUG /\ request = CHOOSE r \in Requests : TRUE)
  /\ args \in Tuples(MaxArgs, Values)
  /\ caller_kwargs \in Dicts(KwNames, Values)
  /\ init_args \in SUBSET InitNames
  /\ pc = "start"
  /\ self_request = NoRequest
  /\ kwargs = caller_kwargs
  /\ init_kwargs = EmptyDict
  /\ newargs = <<>>
  /\ super_calls = <<>>
  /\ init_calls = <<>>
  /\ error = None

\* form.py 79: self.request = request
FormStoreRequest ==
  /\ mixin = "FormMixIn" /\ pc = "start"
  /\ self_request' = request
  /\ pc' = "strip"
  /\ UNCHANGED <<mixin, DEBUG, request, args, caller_kwargs, init_args, kwargs,
                 init_kwargs, newargs, super_calls, init_calls, error>>
  /\ UNCHANGED render_vars

\* form.py 82: strip off the init() arguments
FormStripInit ==
  /\ mixin = "FormMixIn" /\ pc = "strip"
  /\ init_kwargs' = StripInit(kwargs, init_args)
  /\ kwargs' = StripRest(kwargs, init_args)
  /\ pc' = "check"
  /\ UNCHANGED <<mixin, DEBUG, request, args, caller_kwargs, init_args,
                 self_request, newargs, super_calls, init_calls, error>>
  /\ UNCHANGED render_vars

\* form.py 85-90: the assertion on conflicts, under settings.DEBUG
FormCheckConflicts ==
  /\ mixin = "FormMixIn" /\ pc = "check"
  /\ IF DEBUG /\ Cardinality(conflicts(init_kwargs)) # 0
       THEN pc' = "failed" /\ error' = "AssertionError"
       ELSE pc' = "resolve" /\ error' = error
  /\ UNCHANGED <<mixin, DEBUG, request, args, caller_kwargs, init_args,
                 self_request, kwargs, init_kwargs, newargs, super_calls,
                 init_calls>>
  /\ UNCHANGED render_vars

\* form.py 94-100: newargs from args, then kwargs, then the request
FormResolveArgs ==
  /\ mixin = "FormMixIn" /\ pc = "resolve"
  /\ newargs' = <<ResolveData(args, kwargs, request),
                  ResolveFiles(args, kwargs, request)>> \o ExtraArgs(args)
  /\ kwargs' = Pop(kwargs, ResolvePops(args, kwargs))
  /\ pc' = "super"
  /\ UNCHANGED <<mixin, DEBUG, request, args, caller_kwargs, init_args,
                 self_request, init_kwargs, super_calls, init_calls, error>>
  /\ UNCHANGED render_vars

\* a variant of line 103 that runs init() although the base constructor raised
FormCallSuperInitInFinally ==
  /\ mixin = "FormMixIn" /\ pc = "super"
  /\ super_calls' = Append(super_calls, [args |-> newargs, kwargs |-> kwargs])
  /\ IF Binds(BaseParams, newargs, kwargs)
       THEN pc' = "init" /\ error' = error /\ init_calls' = init_calls
       ELSE pc' = "failed" /\ error' = "TypeError"
            /\ init_calls' = Append(init_calls, init_kwargs)
  /\ UNCHANGED <<mixin, DEBUG, request, args, caller_kwargs, init_args,
                 self_request, kwargs, init_kwargs, newargs>>
  /\ UNCHANGED render_vars

\* form.py 103: super().__init__(*newargs, **kwargs)
FormCallSuper ==
  /\ mixin = "FormMixIn" /\ pc = "super"
  /\ super_calls' = Append(super_calls, [args |-> newargs, kwargs |-> kwargs])
  /\ IF Binds(BaseParams, newargs, kwargs)
       THEN pc' = "init" /\ error' = error
       ELSE pc' = "failed" /\ error' = "TypeError"
  /\ UNCHANGED <<mixin, DEBUG, request, args, caller_kwargs, init_args,
                 self_request, kwargs, init_kwargs, newargs, init_calls>>
  /\ UNCHANGED render_vars

\* form.py 106: self.init(**init_kwargs)
FormCallInit ==
  /\ mixin = "FormMixIn" /\ pc = "init"
  /\ init_calls' = Append(init_calls, init_kwargs)
  /\ pc' = "done"
  /\ UNCHANGED <<mixin, DEBUG, request, args, caller_kwargs, init_args,
                 self_request, kwargs, init_kwargs, newargs, super_calls, error>>
  /\ UNCHANGED render_vars

\* initializer.py 16: strip off the init() arguments
InitializerStripInit ==
  /\ mixin = "InitializerMixIn" /\ pc = "start"
  /\ init_kwargs' = StripInit(kwargs, init_args)
  /\ kwargs' = StripRest(kwargs, init_args)
  /\ pc' = "super"
  /\ UNCHANGED <<mixin, DEBUG, request, args, caller_kwargs, init_args,
                 self_request, newargs, super_calls, init_calls, error>>
  /\ UNCHANGED render_vars

\* initializer.py 19: super().__init__(*args, **kwargs)
InitializerCallSuper ==
  /\ mixin = "InitializerMixIn" /\ pc = "super"
  /\ super_calls' = Append(super_calls, [args |-> args, kwargs |-> kwargs])
  /\ IF Binds(BaseParams, args, kwargs)
       THEN pc' = "init" /\ error' = error
       ELSE pc' = "failed" /\ error' = "TypeError"
  /\ UNCHANGED <<mixin, DEBUG, request, args, caller_kwargs, init_args,
                 self_request, kwargs, init_kwargs, newargs, init_calls>>
  /\ UNCHANGED render_vars

\* initializer.py 22: self.init(**init_kwargs)
InitializerCallInit ==
  /\ mixin = "InitializerMixIn" /\ pc = "init"
  /\ init_calls' = Append(init_calls, init_kwargs)
  /\ pc' = "done"
  /\ UNCHANGED <<mixin, DEBUG, request, args, caller_kwargs, init_args,
                 self_request, kwargs, init_kwargs, newargs, super_calls, error>>
  /\ UNCHANGED render_vars

\* ------------------------------------------------------------------------
\* Strings of the class attribute
\* ------------------------------------------------------------------------

\* a str is a sequence of symbols: a symbol is one whitespace character or a
\* run of characters that holds no whitespace
Whitespace == {" ", "\t"}

Alphabet == {"form-control", "x"} \cup Whitespace

SetOf(seq) == {seq[i] : i \in DOMAIN seq}

\* d.get(k, default)
DictGet(d, k, default) == IF k \in DOMAIN d THEN d[k] ELSE default

\* s.split(sep) for a separator of one character: the pieces between the
\* separators, empty pieces included
RECURSIVE SplitFrom(_, _, _, _)
SplitFrom(s, sep, i, piece) ==
  IF i > Len(s) THEN <<piece>>
  ELSE IF s[i] = sep THEN <<piece>> \o SplitFrom(s, sep, i + 1, <<>>)
  ELSE SplitFrom(s, sep, i + 1, Append(piece, s[i]))

Split(s, sep) == SplitFrom(s, sep, 1, <<>>)

\* s.strip(): s without its leading and trailing whitespace
RECURSIVE LStrip(_)
LStrip(s) == IF s # <<>> /\ Head(s) \in Whitespace THEN LStrip(Tail(s)) ELSE s

RECURSIVE RStrip(_)
RStrip(s) ==
  IF s # <<>> /\ s[Len(s)] \in Whitespace THEN RStrip(SubSeq(s, 1, Len(s) - 1)) ELSE s

Strip(s) == RStrip(LStrip(s))

\* sep.join(parts)
RECURSIVE Join(_, _)
Join(sep, parts) ==
  IF parts = <<>> THEN <<>>
  ELSE IF Len(parts) = 1 THEN parts[1]
  ELSE parts[1] \o <<sep>> \o Join(sep, Tail(parts))

\* the orders in which iterating a set can yield its elements
Orderings(S) ==
  {q \in [1..Cardinality(S) -> S] : \A i, j \in DOMAIN q : q[i] = q[j] => i = j}

\* ------------------------------------------------------------------------
\* The form that is rendered
\* ------------------------------------------------------------------------

\* FormMixIn.field_css
field_css == << <<"form-control">> >>

\* self.fields: the names of the form's fields
FieldNames == {"name"}

\* field.widget.attrs, as far as as_full reads and writes it
Attrs == Dicts({"class"}, Tuples(MaxLen, Alphabet))

\* the parameters of as_full, 'self' excluded
AsFullParams == <<>>

\* set(( c.strip() for c in attrs.get('class', '').split(' ') if c ))
current(attrs) ==
  {Strip(c) : c \in {c \in SetOf(Split(DictGet(attrs, "class", <<>>), " ")) : c # <<>>}}

\* css | current
merged(attrs) == SetOf(field_css) \cup current(attrs)

\* attrs after attrs['class'] = value
SetClass(attrs, value) ==
  [k \in DOMAIN attrs \cup {"class"} |-> IF k = "class" THEN value ELSE attrs[k]]

\* the anti-forgery tokens the renderer draws from
Tokens == {"csrf1", "csrf2"}

\* dmp_render_to_string(self.request, 'form.htm', { 'form': self }): the text
\* rendered from the template, the form as it is, and a fresh token
dmp_render_to_string(template, flds, token) ==
  [template |-> template, form |-> flds, csrf |-> token, extra |-> <<>>]

NoMarkup == [template |-> "", form |-> EmptyDict, csrf |-> "", extra |-> <<>>]

\* ------------------------------------------------------------------------
\* The template tag
\* ------------------------------------------------------------------------

\* the form
Forms == {"F"}

\* what a rendering context holds under a key, or a template passes as form
Objects == Forms \cup {None, "obj"}

\* the names a template gives the tag
Strs == {"form", "form_key"}

\* the keys a view puts in the rendering context
CtxKeys == {"form"}

\* the body of the tag's caller, as capture() returns it
Bodies == {<<>>, <<"<p>more</p>">>}

\* isinstance(formobj, Formless)
IsFormless(o) == o \in Forms

\* formobj after lines 29-31
LookupForm(form, ctx) == IF form \in Strs THEN DictGet(ctx, form, None) ELSE form

\* a variant of lines 30-35 without the isinstance check
RenderOutcomeNoTypeCheck(form, ctx) ==
  IF form \in Strs /\ LookupForm(form, ctx) = None THEN "Context key not found"
  ELSE "as_full"

\* which statement of render ends the lookup: one of the two raise
\* statements, or the call of as_full
RenderOutcome(form, ctx) ==
  IF form \in Strs /\ LookupForm(form, ctx) = None THEN "Context key not found"
  ELSE IF ~IsFormless(LookupForm(form, ctx)) THEN "not a Formless subclass"
  ELSE "as_full"

Raise(exc, msg) == [kind |-> "raise", exc |-> exc, msg |-> msg, html |-> NoMarkup]

Return(html) == [kind |-> "return", exc |-> "", msg |-> "", html |-> html]

NoResult == [kind |-> "none", exc |-> "", msg |-> "", html |-> NoMarkup]

\* the body of as_full: lines 120-126
AsFullBody ==
  /\ \E order \in [FieldNames -> UNION {Orderings(merged(fields[f])) : f \in FieldNames}] :
       /\ \A f \in FieldNames : order[f] \in Orderings(merged(fields[f]))
       /\ fields' = [f \in FieldNames |-> SetClass(fields[f], Join(" ", order[f]))]
  /\ calls' = calls + 1
  /\ after_first' = IF calls = 0 THEN fields' ELSE after_first
  /\ \E token \in Tokens :
       result' = Return(dmp_render_to_string("form.htm", fields', token))

\* form.as_full(), and str(form), which returns self.as_full()
AsFull ==
  /\ calls < MaxCalls
  /\ last_op' = "as_full"
  /\ before' = [fields |-> fields, calls |-> calls]
  /\ AsFullBody
  /\ UNCHANGED <<fields0, context, tag_args, caller_body>>
  /\ UNCHANGED ctor_vars

\* the form argument of the tag: render(context, form='form')
FormArg(a) == IF Len(a) > 0 THEN a[1] ELSE "form"

\* tags.py 7-38: render(context, form='form')
Render ==
  /\ last_op' = "render"
  /\ before' = [fields |-> fields, calls |-> calls]
  /\ IF RenderOutcome(FormArg(tag_args), context) # "as_full"
       THEN /\ result' = Raise("ValueError", RenderOutcome(FormArg(tag_args), context))
            /\ UNCHANGED <<fields, calls, after_first>>
       ELSE IF Binds(AsFullParams, <<>>, [extra |-> caller_body])
         THEN /\ calls < MaxCalls
              /\ AsFullBody
         ELSE /\ result' = Raise("TypeError", "unexpected keyword argument 'extra'")
              /\ UNCHANGED <<fields, calls, after_first>>
  /\ UNCHANGED <<fields0, context, tag_args, caller_body>>
  /\ UNCHANGED ctor_vars

RenderIdle ==
  /\ fields = [f \in FieldNames |-> EmptyDict]
  /\ fields0 = fields
  /\ calls = 0
  /\ after_first = fields
  /\ context = EmptyDict
  /\ tag_args = <<>>
  /\ caller_body = <<>>
  /\ before = [fields |-> fields, calls |-> 0]
  /\ last_op = "none"
  /\ result = NoResult

\* a form that a view constructed as MyForm(request) on a GET request
CtorDone ==
  /\ mixin = "FormMixIn"
  /\ DEBUG = FALSE
  /\ request = [method |-> "GET", POST |-> "POST{}", FILES |-> "FILES{}"]
  /\ args = <<>>
  /\ caller_kwargs = EmptyDict
  /\ init_args = {}
  /\ pc = "done"
  /\ self_request = request
  /\ kwargs = EmptyDict
  /\ init_kwargs = EmptyDict
  /\ newargs = <<None, None>>
  /\ super_calls = <<[args |-> <<None, None>>, kwargs |-> EmptyDict]>>
  /\ init_calls = <<EmptyDict>>
  /\ error = None

RenderInit ==
  /\ CtorDone
  /\ fields \in [FieldNames -> Attrs]
  /\ fields0 = fields
  /\ calls = 0
  /\ after_first = fields
  /\ context \in Dicts(CtxKeys, Objects)
  /\ tag_args \in Tuples(1, Strs \cup Objects)
  /\ caller_body \in Bodies
  /\ before = [fields |-> fields, calls |-> 0]
  /\ last_op = "none"
  /\ result = NoResult

RenderNext ==
  \/ AsFull
  \/ Render

\* the rendering of a constructed form
RenderSpec == RenderInit /\ [][RenderNext]_vars

\* ------------------------------------------------------------------------
\* The construction of a form
\* ------------------------------------------------------------------------

Init == CtorInit /\ RenderIdle

Next ==
  \/ FormStoreRequest
  \/ FormStripInit
  \/ FormCheckConflicts
  \/ FormResolveArgs
  \/ FormCallSuper
  \/ FormCallInit
  \/ InitializerStripInit
  \/ InitializerCallSuper
  \/ InitializerCallInit

Spec == Init /\ [][Next]_vars

\* ------------------------------------------------------------------------
\* Properties of the constructors
\* ------------------------------------------------------------------------

\* the caller supplied neither a positional nor a keyword data/files argument
NoExplicitDataFiles ==
  /\ Len(args) = 0
  /\ "data" \notin DOMAIN caller_kwargs
  /\ "files" \notin DOMAIN caller_kwargs

\* the construction got as far as calling the base constructor
ReachedSuper == pc \in {"init", "done"} \/ error = "TypeError"

\* C1: on a POST request for which the caller supplied no data/files,
\* FormMixIn.__init__ passes request.POST as data and request.FILES as files
\* to the base form constructor.
C1_PostDefaultsDataFiles ==
  (mixin = "FormMixIn" /\ request.method = "POST" /\ NoExplicitDataFiles
     /\ ReachedSuper)
  => /\ Len(super_calls) = 1
     /\ super_calls[1].args[1] = request.POST
     /\ super_calls[1].args[2] = request.FILES

C1_Witness ==
  /\ mixin = "FormMixIn" /\ request.method = "POST" /\ NoExplicitDataFiles
  /\ pc = "done" /\ Len(super_calls) = 1
  /\ request.POST = "POST{name=Ada}"

\* C2: on a request whose method is not POST, for which the caller supplied
\* no data/files, the base form constructor receives None for data and files.
C2_NonPostInjectsNothing ==
  (mixin = "FormMixIn" /\ request.method # "POST" /\ NoExplicitDataFiles
     /\ ReachedSuper)
  => /\ Len(super_calls) = 1
     /\ super_calls[1].args[1] = None
     /\ super_calls[1].args[2] = None

C2_Witness ==
  /\ mixin = "FormMixIn" /\ request.method = "GET" /\ NoExplicitDataFiles
  /\ pc = "done" /\ Len(super_calls) = 1
  /\ request.POST = "POST{name=Ada}"

C4_InitOnceAndLast ==
  /\ Len(init_calls) <= 1
  /\ (pc = "done") <=> (Len(init_calls) = 1)
  /\ Len(init_calls) = 1
       => /\ mixin = "FormMixIn" => self_request = request
          /\ DOMAIN init_kwargs = init_args
          /\ init_calls[1] = init_kwargs
          /\ mixin = "FormMixIn" => ~(DEBUG /\ mro_args \cap init_args # {})
          /\ Len(super_calls) = 1
          /\ Binds(BaseParams, super_calls[1].args, super_calls[1].kwargs)
          /\ error = None
          /\ ~ENABLED Next
  /\ (pc = "failed" \/ error # None) => init_calls = <<>>

C4_Witness ==
  /\ pc = "done" /\ Len(init_calls) = 1 /\ mixin = "InitializerMixIn"
  /\ init_args # {}

\* C5: with settings.DEBUG on, a construction whose init() declares a name
\* that is a parameter name of a constructor in the mro fails with the
\* assertion before the base constructor and init() are invoked; with DEBUG
\* on and no such name, and with DEBUG off, the check raises nothing.
C5_DebugCollisionFailsFast ==
  mixin = "FormMixIn" =>
    LET collides == \E k \in init_args : k \in {"self", "request"} \cup BaseParamNames
        checked == pc \notin {"start", "strip", "check"}
    IN /\ (checked /\ DEBUG /\ collides)
            => /\ pc = "failed" /\ error = "AssertionError"
               /\ super_calls = <<>> /\ init_calls = <<>>
       /\ (checked /\ ~(DEBUG /\ collides))
            => /\ error # "AssertionError"
               /\ pc = "failed" => Len(super_calls) = 1

C5_Witness ==
  /\ mixin = "FormMixIn" /\ DEBUG /\ error = "AssertionError"
  /\ "prefix" \in init_args

\* the keyword dict the base constructor was called with
SuperKwargs == super_calls[1].kwargs

ClaimedResolve(i, name, default) ==
  IF Len(args) >= i THEN args[i]
  ELSE IF name \in DOMAIN caller_kwargs THEN caller_kwargs[name]
  ELSE IF request.method = "POST" THEN default
  ELSE None

\* C10 (as claimed): data and files are each resolved by the precedence
\* positional, keyword, request default; a supplied value is never overridden
\* by the request default.
C10_ResolvedByPrecedence ==
  (mixin = "FormMixIn" /\ ReachedSuper)
  => /\ super_calls[1].args[1] = ClaimedResolve(1, "data", request.POST)
     /\ super_calls[1].args[2] = ClaimedResolve(2, "files", request.FILES)

\* the precedence with a keyword that init() declares left out
AmendedResolve(i, name, default) ==
  IF Len(args) >= i THEN args[i]
  ELSE IF name \in DOMAIN caller_kwargs /\ name \notin init_args THEN caller_kwargs[name]
  ELSE IF request.method = "POST" THEN default
  ELSE None

\* C10 (amended): as claimed, except that a 'data' or 'files' keyword whose
\* name init() declares goes to init() and does not count as supplied: the
\* request default then applies.
C10_ResolvedUnlessInitDeclares ==
  (mixin = "FormMixIn" /\ ReachedSuper)
  => /\ super_calls[1].args[1] = AmendedResolve(1, "data", request.POST)
     /\ super_calls[1].args[2] = AmendedResolve(2, "files", request.FILES)

C10_Witness ==
  /\ mixin = "FormMixIn" /\ pc = "done" /\ request.method = "POST"
  /\ Len(args) = 0 /\ "data" \notin DOMAIN caller_kwargs
  /\ "files" \in DOMAIN caller_kwargs /\ caller_kwargs["files"] = None
  /\ super_calls[1].args = <<request.POST, None>>

\* ------------------------------------------------------------------------
\* Properties of as_full and of the template tag
\* ------------------------------------------------------------------------

\* the class names of a class attribute: its maximal runs of non-whitespace
RECURSIVE ClassNamesFrom(_, _, _)
ClassNamesFrom(s, i, piece) ==
  IF i > Len(s) THEN (IF piece = <<>> THEN <<>> ELSE <<piece>>)
  ELSE IF s[i] \in Whitespace
    THEN (IF piece = <<>> THEN <<>> ELSE <<piece>>) \o ClassNamesFrom(s, i + 1, <<>>)
  ELSE ClassNamesFrom(s, i + 1, Append(piece, s[i]))

\* the class names of a field, in the order its attribute lists them
ClassList(attrs) == ClassNamesFrom(DictGet(attrs, "class", <<>>), 1, <<>>)

ClassSetOf(attrs) == SetOf(ClassList(attrs))

DefaultClasses == UNION {SetOf(ClassNamesFrom(field_css[i], 1, <<>>)) : i \in DOMAIN field_css}

NoDuplicate(seq) == \A i, j \in DOMAIN seq : seq[i] = seq[j] => i = j

\* after one or more calls, every field's class set is the union of the
\* default classes and the classes it had before the first call
C6_ClassSetIsUnion ==
  calls >= 1 =>
    \A f \in FieldNames : ClassSetOf(fields[f]) = DefaultClasses \cup ClassSetOf(fields0[f])

\* every later call leaves the class set the first call produced
C6_SameAsAfterFirst ==
  calls >= 1 => \A f \in FieldNames : ClassSetOf(fields[f]) = ClassSetOf(after_first[f])

\* after one or more calls, no field whose class attribute listed no class
\* twice to begin with lists a class twice
C6_NoClassTwice ==
  calls >= 1 =>
    \A f \in FieldNames :
      NoDuplicate(ClassList(fields0[f])) => NoDuplicate(ClassList(fields[f]))

\* C6: as_full is idempotent on the fields' classes: after one or more calls
\* every field's class set is the union of field_css and the classes the
\* field had before the first call, no class name is listed twice, none is
\* lost, and the set after a later call is the set after the first.
C6_AsFullIdempotent ==
  /\ C6_ClassSetIsUnion
  /\ C6_NoClassTwice
  /\ C6_SameAsAfterFirst

\* the tag was the last operation and was given a name, by default "form"
TagLooksUpName == last_op = "render" /\ FormArg(tag_args) \in Strs

NothingRendered == fields = before.fields /\ calls = before.calls

\* C7 (as claimed): a name that is not in the context raises the lookup
\* error, a name whose value is not a form raises the type error, and in both
\* cases nothing is rendered.
C7_MissingOrNotAForm ==
  TagLooksUpName =>
    LET name == FormArg(tag_args)
    IN /\ name \notin DOMAIN context
            => /\ result.kind = "raise" /\ result.msg = "Context key not found"
               /\ NothingRendered
       /\ (name \in DOMAIN context /\ context[name] \notin Forms)
            => /\ result.kind = "raise" /\ result.msg = "not a Formless subclass"
               /\ NothingRendered

\* C7 (amended): a name that is not in the context, or whose value is None,
\* raises the lookup error (ValueError, key not found); a name whose value is
\* neither None nor a form raises the type error (ValueError, not a Formless
\* subclass); in both cases nothing is rendered.
C7_MissingOrNoneOrNotAForm ==
  TagLooksUpName =>
    LET name == FormArg(tag_args)
    IN /\ (name \notin DOMAIN context \/ DictGet(context, name, None) = None)
            => /\ result = Raise("ValueError", "Context key not found")
               /\ NothingRendered
       /\ (name \in DOMAIN context /\ context[name] \notin Forms \cup {None})
            => /\ result = Raise("ValueError", "not a Formless subclass")
               /\ NothingRendered

C7_Witness ==
  /\ TagLooksUpName /\ tag_args = <<"form">> /\ calls >= 1
  /\ context = [form |-> "obj"]
  /\ result.msg = "not a Formless subclass"

\* C8: with the form under the key "form" and no form name given, the tag
\* returns the form's markup as as_full produces it, with the caller's body
\* appended.
C8_TagRendersForm ==
  (last_op = "render" /\ tag_args = <<>>
     /\ "form" \in DOMAIN context /\ context["form"] \in Forms)
  => /\ result.kind = "return"
     /\ result.html.template = "form.htm"
     /\ result.html.form = fields
     /\ result.html.extra = caller_body

====
